---- MODULE Spec2Model ----
(***************************************************************************)
(* Model of the LandRegistry contract (contracts/LandRegistry.sol, kept in *)
(* src/unnamed/part_001): an ERC721 token per parcel, a Land record per    *)
(* token id, registerLand, buyLand and the inherited transferFrom.         *)
(*                                                                         *)
(* buyLand makes an external call (seller.call{value: msg.value}("")) in   *)
(* the middle of its body.  The callee's code runs while buyLand is        *)
(* suspended and may call the registry again, so a call of buyLand is      *)
(* modelled as a frame on a call stack: BuyLand runs the code up to and    *)
(* including the start of the external call, the callee then makes nested  *)
(* calls, and AcceptPayment / RejectPayment model the return of the        *)
(* external call together with the rest of buyLand's body.                 *)
(*                                                                         *)
(* Beside the contract, the module models the two off-chain programs of    *)
(* the repository: the WalletService of the scripts (src/unnamed/part_000, *)
(* a session kept in memory and in a file) and the Home component of the   *)
(* web client (src/unnamed/part_002, its React state and its pending async *)
(* functions).  Each has its own specification; in Spec they stay as       *)
(* they are at start.  So does the seeding loop of                         *)
(* scripts/deployWithGovernmentLands.ts, which registers a list of lands   *)
(* on a fresh registry and reports a token id for each.                    *)
(***************************************************************************)
EXTENDS Integers, Sequences, FiniteSets, TLC

\* ------------------------------------------------------------------ bounds
MaxTokens == 2      \* registerLand is offered while nextTokenId < MaxTokens
MaxPrice == 1       \* prices offered to registerLand: 0..MaxPrice
MaxValue == 1       \* msg.value offered to buyLand: 0..MaxValue
MaxDepth == 2       \* nesting depth of suspended buyLand calls
InitBalance == 1    \* ether balance of every account at deployment
MaxClock == 3       \* Date.now() takes the values 0..MaxClock
MaxLands == 3       \* the seeding script gets a list of 1..MaxLands lands

\* ---------------------------------------------------------------- universe
ZeroAddr == "0x0"                      \* address(0)
EOAs == {"alice", "bob"}               \* accounts without code
Contracts == {"mallory"}               \* accounts whose code runs on receipt of ether
Accounts == EOAs \cup Contracts
Registry == "registry"                 \* address(this)
Locations == {"Plot 1"}
URIs == {"ipfs://a"}
Ids == 0..(MaxTokens - 1)              \* the token ids the model offers to its calls
Prices == 0..MaxPrice
Values == 0..MaxValue

\* revert reasons of buyLand
NotForSale == "Land not for sale"
InsufficientFunds == "Insufficient funds"
AlreadyOwner == "You already own this"
PaymentTransferFailed == "Transfer failed"
\* custom errors of the inherited ERC721
NonexistentToken == "ERC721NonexistentToken"
InvalidReceiver == "ERC721InvalidReceiver"
InsufficientApproval == "ERC721InsufficientApproval"
IncorrectOwner == "ERC721IncorrectOwner"
InvalidSender == "ERC721InvalidSender"
Ok == "ok"
Sending == "sending"                   \* buyLand is suspended in seller.call

\* ------------------------------------------------------------------- state
VARIABLES
    nextTokenId,    \* uint256 public nextTokenId
    lands,          \* mapping(uint256 => Land) public lands
    owners,         \* ERC721 _owners: token id -> address, ZeroAddr when not minted
    tokenURIs,      \* ERC721URIStorage _tokenURIs
    balances,       \* ether balance of every account and of the registry
    stack,          \* suspended buyLand calls, outermost first
    last,           \* the call that acted last and its outcome
    session,        \* WalletService.session of the running process
    sessionFile,    \* the file SESSION_FILE
    now,            \* Date.now()
    account,        \* Home: useState account
    contract,       \* Home: useState contract (the signer the Contract is bound to)
    provider,       \* Home: useState provider
    homeLands,      \* Home: useState lands
    notification,   \* Home: useState notification (its message)
    isLoading,      \* Home: useState isLoading
    ethereum,       \* window.ethereum: the account the wallet extension exposes
    awaiting,       \* Home: the async functions suspended in an await
    governmentLands,\* seeding script: governmentData.governmentLands
    seedIndex,      \* seeding script: the loop variable i
    seedLog,        \* seeding script: the "Registered: Token ID" lines printed
    successCount,   \* seeding script: successCount
    failCount       \* seeding script: failCount

chain == <<nextTokenId, lands, owners, tokenURIs, balances>>
wallet == <<session, sessionFile, now>>
home == <<account, contract, provider, homeLands, notification, isLoading, ethereum, awaiting>>
seed == <<governmentLands, seedIndex, seedLog, successCount, failCount>>
offchain == <<wallet, home, seed>>
vars == <<nextTokenId, lands, owners, tokenURIs, balances, stack, last, offchain>>

\* The value of an unset mapping slot of type Land.
EmptyLand == [id |-> 0, location |-> "", price |-> 0, isForSale |-> FALSE, seller |-> ZeroAddr]

\* Land(tokenId, _location, _price, true, payable(msg.sender))
Land(tokenId, location, price, isForSale, seller) ==
    [id |-> tokenId, location |-> location, price |-> price,
     isForSale |-> isForSale, seller |-> seller]

Snapshot == [nextTokenId |-> nextTokenId, lands |-> lands, owners |-> owners,
             tokenURIs |-> tokenURIs, balances |-> balances]

Call(op, caller, id, value, depth, outcome) ==
    [op |-> op, caller |-> caller, id |-> id, value |-> value,
     depth |-> depth, outcome |-> outcome]

Depth == Len(stack)
Top == stack[Len(stack)]

\* Who can be msg.sender of a call to buyLand now.  Between transactions it is
\* any account.  While a buyLand is suspended in seller.call, only code runs:
\* the payee's own code or a contract it calls, and only if the payee has code.
\* The calls the model lets that code make are calls of buyLand.
CanCall(c) ==
    IF stack = <<>> THEN c \in Accounts
    ELSE Top.seller \in Contracts /\ c \in Contracts

\* registerLand declares no return value: the list of values its caller gets
\* back is empty.
NoReturnValue == <<>>

\* A call of registerLand, its outcome and what it returned.
Registered(c, tokenId, outcome) ==
    [op |-> "register", caller |-> c, id |-> tokenId, value |-> 0,
     depth |-> Len(stack), outcome |-> outcome, returned |-> NoReturnValue]

\* null of the web client's state.
Null == "null"

\* The outcome of a call of registerLand or transferFrom.
Done(op, outcome) == [op |-> op, outcome |-> outcome]

Init ==
    /\ nextTokenId = 0
    /\ lands = [i \in Ids |-> EmptyLand]
    /\ owners = [i \in Ids |-> ZeroAddr]
    /\ tokenURIs = [i \in Ids |-> ""]
    /\ balances = [a \in Accounts \cup {Registry} |-> IF a = Registry THEN 0 ELSE InitBalance]
    /\ stack = <<>>
    /\ last = Done("deploy", Ok)
    /\ session = <<>>
    /\ sessionFile = <<>>
    /\ now = 0
    /\ account = Null
    /\ contract = Null
    /\ provider = Null
    /\ homeLands = <<>>
    /\ notification = Null
    /\ isLoading = FALSE
    /\ ethereum = Null
    /\ awaiting = {}
    /\ governmentLands = <<>>
    /\ seedIndex = 0
    /\ seedLog = <<>>
    /\ successCount = 0
    /\ failCount = 0

\* ---------------------------------------------------------------- ERC721
\* ERC721.ownerOf -> _requireOwned: reverts for a token that was never minted.
ownerOf(id) == owners[id]

\* ERC721._mint(to, tokenId): Ok when it succeeds, else the error.
MintError(to, id) ==
    IF to = ZeroAddr THEN InvalidReceiver
    ELSE IF owners[id] # ZeroAddr THEN InvalidSender
    ELSE Ok

\* ERC721._transfer(from, to, tokenId) as buyLand uses it: the owner map afterwards.
Transfer(from, to, id) == [owners EXCEPT ![id] = to]

\* ------------------------------------------------------------ registerLand
\* Mutant: nextTokenId++ is missing.
RegisterNoIncrement(c, location, price, uri, tokenId) ==
    /\ stack = <<>>
    /\ nextTokenId < MaxTokens
    /\ LET err == MintError(c, tokenId)
       IN IF err # Ok
          THEN /\ UNCHANGED chain
               /\ last' = Registered(c, tokenId, err)
          ELSE /\ owners' = [owners EXCEPT ![tokenId] = c]
               /\ tokenURIs' = [tokenURIs EXCEPT ![tokenId] = uri]
               /\ lands' = [lands EXCEPT ![tokenId] = Land(tokenId, location, price, TRUE, c)]
               /\ UNCHANGED <<nextTokenId, balances>>
               /\ last' = Registered(c, tokenId, Ok)
    /\ UNCHANGED stack

\* Mutant: _setTokenURI is missing.
RegisterNoURI(c, location, price, uri, tokenId) ==
    /\ stack = <<>>
    /\ nextTokenId < MaxTokens
    /\ LET err == MintError(c, tokenId)
       IN IF err # Ok
          THEN /\ UNCHANGED chain
               /\ last' = Registered(c, tokenId, err)
          ELSE /\ owners' = [owners EXCEPT ![tokenId] = c]
               /\ lands' = [lands EXCEPT ![tokenId] = Land(tokenId, location, price, TRUE, c)]
               /\ nextTokenId' = nextTokenId + 1
               /\ UNCHANGED <<tokenURIs, balances>>
               /\ last' = Registered(c, tokenId, Ok)
    /\ UNCHANGED stack

\* Mutant: registerLand carries onlyOwner (the deployer is alice).
RegisterOnlyOwner(c, location, price, uri, tokenId) ==
    /\ stack = <<>>
    /\ nextTokenId < MaxTokens
    /\ LET err == IF c # "alice" THEN "OwnableUnauthorizedAccount" ELSE MintError(c, tokenId)
       IN IF err # Ok
          THEN /\ UNCHANGED chain
               /\ last' = Registered(c, tokenId, err)
          ELSE /\ owners' = [owners EXCEPT ![tokenId] = c]
               /\ tokenURIs' = [tokenURIs EXCEPT ![tokenId] = uri]
               /\ lands' = [lands EXCEPT ![tokenId] = Land(tokenId, location, price, TRUE, c)]
               /\ nextTokenId' = nextTokenId + 1
               /\ UNCHANGED balances
               /\ last' = Registered(c, tokenId, Ok)
    /\ UNCHANGED stack

\* Mutant: the record's id field is read from the counter after nextTokenId++.
RegisterRecordIdAfterIncrement(c, location, price, uri, tokenId) ==
    /\ stack = <<>>
    /\ nextTokenId < MaxTokens
    /\ LET err == MintError(c, tokenId)
       IN IF err # Ok
          THEN /\ UNCHANGED chain
               /\ last' = Registered(c, tokenId, err)
          ELSE /\ owners' = [owners EXCEPT ![tokenId] = c]
               /\ tokenURIs' = [tokenURIs EXCEPT ![tokenId] = uri]
               /\ lands' = [lands EXCEPT ![tokenId] = Land(tokenId + 1, location, price, TRUE, c)]
               /\ nextTokenId' = nextTokenId + 1
               /\ UNCHANGED balances
               /\ last' = Registered(c, tokenId, Ok)
    /\ UNCHANGED stack

\* The body of registerLand for the token id it read from the counter.
Register(c, location, price, uri, tokenId) ==
    /\ stack = <<>>
    /\ nextTokenId < MaxTokens
    /\ LET err == MintError(c, tokenId)
       IN IF err # Ok
          THEN /\ UNCHANGED chain
               /\ last' = Registered(c, tokenId, err)
          ELSE /\ owners' = [owners EXCEPT ![tokenId] = c]
               /\ tokenURIs' = [tokenURIs EXCEPT ![tokenId] = uri]
               /\ lands' = [lands EXCEPT ![tokenId] = Land(tokenId, location, price, TRUE, c)]
               /\ nextTokenId' = nextTokenId + 1
               /\ UNCHANGED balances
               /\ last' = Registered(c, tokenId, Ok)
    /\ UNCHANGED stack

\* Mutant: ids are handed out from the top of the id space downwards.
RegisterLandDescending(c, location, price, uri) ==
    Register(c, location, price, uri, MaxTokens - 1 - nextTokenId)

\* uint256 tokenId = nextTokenId; ... nextTokenId++
RegisterLand(c, location, price, uri) ==
    Register(c, location, price, uri, nextTokenId)

\* ----------------------------------------------------------------- buyLand
\* Mutant: the third require ("You already own this") is missing.
BuyCheckNoOwnerCheck(c, id, v) ==
    IF ~lands[id].isForSale THEN NotForSale
    ELSE IF ~(v >= lands[id].price) THEN InsufficientFunds
    ELSE IF owners[id] = ZeroAddr THEN NonexistentToken
    ELSE Ok

\* Mutant: the second require ("Insufficient funds") is missing.
BuyCheckNoPriceCheck(c, id, v) ==
    IF ~lands[id].isForSale THEN NotForSale
    ELSE IF owners[id] = ZeroAddr THEN NonexistentToken
    ELSE IF ~(ownerOf(id) # c) THEN AlreadyOwner
    ELSE Ok

\* Mutant: the owner check is made before the price check.
BuyCheckOwnerFirst(c, id, v) ==
    IF ~lands[id].isForSale THEN NotForSale
    ELSE IF owners[id] = ZeroAddr THEN NonexistentToken
    ELSE IF ~(ownerOf(id) # c) THEN AlreadyOwner
    ELSE IF ~(v >= lands[id].price) THEN InsufficientFunds
    ELSE Ok

\* Mutant: the price check is strict (msg.value > land.price).
BuyCheckStrictPrice(c, id, v) ==
    IF ~lands[id].isForSale THEN NotForSale
    ELSE IF ~(v > lands[id].price) THEN InsufficientFunds
    ELSE IF owners[id] = ZeroAddr THEN NonexistentToken
    ELSE IF ~(ownerOf(id) # c) THEN AlreadyOwner
    ELSE Ok

\* Mutant: the first require ("Land not for sale") is missing.
BuyCheckNoSaleCheck(c, id, v) ==
    IF ~(v >= lands[id].price) THEN InsufficientFunds
    ELSE IF owners[id] = ZeroAddr THEN NonexistentToken
    ELSE IF ~(ownerOf(id) # c) THEN AlreadyOwner
    ELSE Ok

\* The three require statements of buyLand, in the order of the code, and the
\* ownerOf inside the third: the revert reason, or Ok when all pass.
BuyCheck(c, id, v) ==
    IF ~lands[id].isForSale THEN NotForSale
    ELSE IF ~(v >= lands[id].price) THEN InsufficientFunds
    ELSE IF owners[id] = ZeroAddr THEN NonexistentToken
    ELSE IF ~(ownerOf(id) # c) THEN AlreadyOwner
    ELSE Ok

\* Ether moved from one account to another.
Pay(bal, from, to, v) ==
    IF from = to THEN bal
    ELSE [bal EXCEPT ![from] = @ - v, ![to] = @ + v]

\* Mutant: the excess over the price stays in the registry
\* (seller.call{value: land.price}, no refund).
BuyLandKeepsExcess(c, id, v) ==
    /\ CanCall(c)
    /\ Depth < MaxDepth
    /\ v <= balances[c]
    /\ LET err == BuyCheck(c, id, v)
           seller == ownerOf(id)
       IN IF err # Ok
          THEN /\ UNCHANGED <<chain, stack>>
               /\ last' = Call("buy", c, id, v, Depth, err)
          ELSE /\ owners' = Transfer(seller, c, id)
               /\ balances' = Pay(Pay(balances, c, Registry, v), Registry, seller, lands[id].price)
               /\ stack' = Append(stack, [caller |-> c, id |-> id, value |-> v,
                                          seller |-> seller, snapshot |-> Snapshot])
               /\ last' = Call("buy", c, id, v, Depth, Sending)
               /\ UNCHANGED <<nextTokenId, lands, tokenURIs>>

\* Mutant: the seller is sent the price and the excess goes back to the buyer
\* (seller.call{value: land.price} and a refund of msg.value - land.price).
BuyLandPaysPrice(c, id, v) ==
    /\ CanCall(c)
    /\ Depth < MaxDepth
    /\ v <= balances[c]
    /\ LET err == BuyCheck(c, id, v)
           seller == ownerOf(id)
       IN IF err # Ok
          THEN /\ UNCHANGED <<chain, stack>>
               /\ last' = Call("buy", c, id, v, Depth, err)
          ELSE /\ owners' = Transfer(seller, c, id)
               /\ balances' = Pay(balances, c, seller, lands[id].price)
               /\ stack' = Append(stack, [caller |-> c, id |-> id, value |-> v,
                                          seller |-> seller, snapshot |-> Snapshot])
               /\ last' = Call("buy", c, id, v, Depth, Sending)
               /\ UNCHANGED <<nextTokenId, lands, tokenURIs>>

\* buyLand from its entry up to the external call seller.call{value: msg.value}:
\* a failed require reverts at once; otherwise the token has been transferred
\* and the ether handed to the seller, whose code now runs.
BuyLand(c, id, v) ==
    /\ CanCall(c)
    /\ Depth < MaxDepth
    /\ v <= balances[c]
    /\ LET err == BuyCheck(c, id, v)
           seller == ownerOf(id)
       IN IF err # Ok
          THEN /\ UNCHANGED <<chain, stack>>
               /\ last' = Call("buy", c, id, v, Depth, err)
          ELSE /\ owners' = Transfer(seller, c, id)
               /\ balances' = Pay(Pay(balances, c, Registry, v), Registry, seller, v)
               /\ stack' = Append(stack, [caller |-> c, id |-> id, value |-> v,
                                          seller |-> seller, snapshot |-> Snapshot])
               /\ last' = Call("buy", c, id, v, Depth, Sending)
               /\ UNCHANGED <<nextTokenId, lands, tokenURIs>>

\* Mutant: land.isForSale = false is missing after the payment.
AcceptPaymentKeepsListing ==
    /\ stack # <<>>
    /\ Top.seller # Registry
    /\ LET f == Top
       IN /\ lands' = [lands EXCEPT ![f.id].seller = f.caller]
          /\ stack' = SubSeq(stack, 1, Len(stack) - 1)
          /\ last' = Call("buy", f.caller, f.id, f.value, Depth - 1, Ok)
    /\ UNCHANGED <<nextTokenId, owners, tokenURIs, balances>>

\* seller.call returned success = true: the rest of buyLand's body runs.
\* The registry has no receive or fallback function, so a call that pays the
\* registry itself (a parcel transferred to address(this)) never succeeds.
AcceptPayment ==
    /\ stack # <<>>
    /\ Top.seller # Registry
    /\ LET f == Top
       IN /\ lands' = [lands EXCEPT ![f.id].isForSale = FALSE, ![f.id].seller = f.caller]
          /\ stack' = SubSeq(stack, 1, Len(stack) - 1)
          /\ last' = Call("buy", f.caller, f.id, f.value, Depth - 1, Ok)
    /\ UNCHANGED <<nextTokenId, owners, tokenURIs, balances>>

\* Mutant: a failed payment ends the call without reverting it
\* (if (!success) return; in place of require(success, ...)).
RejectPaymentNoRevert ==
    /\ stack # <<>>
    /\ Top.seller \in Contracts \cup {Registry}
    /\ LET f == Top
       IN /\ balances' = Pay(balances, f.seller, Registry, f.value)
          /\ stack' = SubSeq(stack, 1, Len(stack) - 1)
          /\ last' = Call("buy", f.caller, f.id, f.value, Depth - 1, PaymentTransferFailed)
    /\ UNCHANGED <<nextTokenId, lands, owners, tokenURIs>>

\* seller.call returned success = false (the payee's code reverted):
\* require(success, "Transfer failed") reverts the whole call of buyLand.
RejectPayment ==
    /\ stack # <<>>
    /\ Top.seller \in Contracts \cup {Registry}
    /\ LET f == Top
       IN /\ nextTokenId' = f.snapshot.nextTokenId
          /\ lands' = f.snapshot.lands
          /\ owners' = f.snapshot.owners
          /\ tokenURIs' = f.snapshot.tokenURIs
          /\ balances' = f.snapshot.balances
          /\ stack' = SubSeq(stack, 1, Len(stack) - 1)
          /\ last' = Call("buy", f.caller, f.id, f.value, Depth - 1, PaymentTransferFailed)

\* ------------------------------------------------------------ transferFrom
\* Mutant: the receiver is not checked against address(0).
TransferErrorNoReceiverCheck(c, from, to, id) ==
    IF owners[id] = ZeroAddr THEN NonexistentToken
    ELSE IF owners[id] # c THEN InsufficientApproval
    ELSE IF owners[id] # from THEN IncorrectOwner
    ELSE Ok

\* ERC721.transferFrom(from, to, tokenId): only the token's owner is authorised
\* (no approvals are given in the model).
TransferError(c, from, to, id) ==
    IF to = ZeroAddr THEN InvalidReceiver
    ELSE IF owners[id] = ZeroAddr THEN NonexistentToken
    ELSE IF owners[id] # c THEN InsufficientApproval
    ELSE IF owners[id] # from THEN IncorrectOwner
    ELSE Ok

\* Mutant: a transfer also writes the new owner into the seller field.
TransferFromUpdatesSeller(c, from, to, id) ==
    /\ stack = <<>>
    /\ LET err == TransferError(c, from, to, id)
       IN /\ owners' = IF err = Ok THEN Transfer(from, to, id) ELSE owners
          /\ lands' = IF err = Ok THEN [lands EXCEPT ![id].seller = to] ELSE lands
          /\ last' = Done("transfer", err)
    /\ UNCHANGED <<nextTokenId, tokenURIs, balances, stack>>

\* Mutant: a transfer puts the parcel back on sale.
TransferFromRelists(c, from, to, id) ==
    /\ stack = <<>>
    /\ LET err == TransferError(c, from, to, id)
       IN /\ owners' = IF err = Ok THEN Transfer(from, to, id) ELSE owners
          /\ lands' = IF err = Ok THEN [lands EXCEPT ![id].isForSale = TRUE] ELSE lands
          /\ last' = Done("transfer", err)
    /\ UNCHANGED <<nextTokenId, tokenURIs, balances, stack>>

TransferFrom(c, from, to, id) ==
    /\ stack = <<>>
    /\ LET err == TransferError(c, from, to, id)
       IN /\ owners' = IF err = Ok THEN Transfer(from, to, id) ELSE owners
          /\ last' = Done("transfer", err)
    /\ UNCHANGED <<nextTokenId, lands, tokenURIs, balances, stack>>

\* ------------------------------------------------------------- getAllLands
\* Mutant: the loop stops one element early (i < nextTokenId - 1).
getAllLandsOneShort ==
    [i \in 1..nextTokenId |-> IF i < nextTokenId THEN lands[i - 1] ELSE EmptyLand]

\* getAllLands(): an array of nextTokenId elements, element i = lands[i]
\* (the sequence is indexed from 1, the array from 0).
getAllLands == [i \in 1..nextTokenId |-> lands[i - 1]]

\* A call of the view function getAllLands, between transactions or from code
\* running inside a payment: it returns the array and changes nothing.
GetAllLands ==
    /\ last' = [op |-> "list", outcome |-> Ok, depth |-> Depth, returned |-> getAllLands]
    /\ UNCHANGED <<chain, stack>>

\* -------------------------------------------------------------------- spec
Next ==
    \/ \E c \in Accounts, l \in Locations, p \in Prices, u \in URIs :
          RegisterLand(c, l, p, u) /\ UNCHANGED offchain
    \/ \E c \in Accounts, id \in Ids, v \in Values :
          BuyLand(c, id, v) /\ UNCHANGED offchain
    \/ AcceptPayment /\ UNCHANGED offchain
    \/ RejectPayment /\ UNCHANGED offchain
    \/ GetAllLands /\ UNCHANGED offchain
    \/ \E c \in Accounts, from \in Accounts, to \in Accounts \cup {ZeroAddr, Registry}, id \in Ids :
          TransferFrom(c, from, to, id) /\ UNCHANGED offchain

Spec == Init /\ [][Next]_vars

\* The same registry with two locations and two metadata URIs offered to
\* registerLand, so that what a record stores can be told from a constant.
\* The inherited transferFrom is left out to keep the state space small.
SurveyLocations == Locations \cup {"Lat: 20.5937, Lng: 78.9629"}
SurveyURIs == URIs \cup {"ipfs://b"}

NextSurvey ==
    \/ \E c \in Accounts, l \in SurveyLocations, p \in Prices, u \in SurveyURIs :
          RegisterLand(c, l, p, u) /\ UNCHANGED offchain
    \/ \E c \in Accounts, id \in Ids, v \in Values :
          BuyLand(c, id, v) /\ UNCHANGED offchain
    \/ AcceptPayment /\ UNCHANGED offchain
    \/ RejectPayment /\ UNCHANGED offchain

SpecSurvey == Init /\ [][NextSurvey]_vars

\* ------------------------------------------------------------ WalletService
\* WalletSession | null: the empty sequence is null, <<s>> a session s.
NoSession == <<>>
\* SESSION_FILE does not exist.
NoFile == <<>>

\* ethers.getSigners(): the accounts of the local node, indexed from 0.
Signers == <<"alice", "bob">>
\* the account indexes offered to login; NotANumber is parseInt's NaN
NotANumber == -1
Indexes == {NotANumber} \cup (0..(Len(Signers) + 1))

InvalidAccountIndex == "Invalid account index"
TypeError == "TypeError"
NoWalletLoggedIn == "No wallet is currently logged in"

\* JSON.stringify(this.session, null, 2): the members in declaration order.
Stringify(s) ==
    <<"address", s.address, "connectedAt", s.connectedAt, "isLoggedIn", s.isLoggedIn>>

\* JSON.parse(data) of a file written by saveSession.
Parse(data) == [address |-> data[2], connectedAt |-> data[4], isLoggedIn |-> data[6]]

\* loadSession(): the session a new WalletService starts with.
loadSession(file) == IF file # NoFile THEN <<Parse(file[1])>> ELSE NoSession

\* saveSession(): the file afterwards, for the session s.
saveSession(s) == IF s # NoSession THEN <<Stringify(s[1])>> ELSE NoFile

\* this.session?.isLoggedIn ?? false
isLoggedIn(s) == IF s = NoSession THEN FALSE ELSE s[1].isLoggedIn

\* A call on the WalletService and its outcome.
WalletCall(op, index, outcome) == [op |-> op, index |-> index, outcome |-> outcome]

\* A new process imports the module: new WalletService().
Construct ==
    /\ session' = loadSession(sessionFile)
    /\ last' = WalletCall("construct", 0, Ok)
    /\ UNCHANGED <<sessionFile, now>>

\* Mutant: an invalid index logs the wallet out before the error is thrown.
LoginClearsOnError(accountIndex) ==
    LET err == IF accountIndex >= Len(Signers) THEN InvalidAccountIndex
               ELSE IF accountIndex < 0 THEN TypeError
               ELSE Ok
    IN IF err # Ok
       THEN /\ session' = NoSession
            /\ sessionFile' = saveSession(NoSession)
            /\ last' = WalletCall("login", accountIndex, err)
            /\ UNCHANGED now
       ELSE /\ session' = <<[address |-> Signers[accountIndex + 1],
                             connectedAt |-> now, isLoggedIn |-> TRUE]>>
            /\ sessionFile' = saveSession(session')
            /\ last' = WalletCall("login", accountIndex, Ok)
            /\ UNCHANGED now

\* login(accountIndex).  The awaits of getSigners, getAddress and getBalance
\* come before the first write, so the call acts in one step: an index at or
\* above signers.length throws; signers[NaN] is undefined and getAddress on
\* it throws; otherwise the session is set and saved.
Login(accountIndex) ==
    LET err == IF accountIndex >= Len(Signers) THEN InvalidAccountIndex
               ELSE IF accountIndex < 0 THEN TypeError
               ELSE Ok
    IN IF err # Ok
       THEN /\ last' = WalletCall("login", accountIndex, err)
            /\ UNCHANGED <<session, sessionFile, now>>
       ELSE /\ session' = <<[address |-> Signers[accountIndex + 1],
                             connectedAt |-> now, isLoggedIn |-> TRUE]>>
            /\ sessionFile' = saveSession(session')
            /\ last' = WalletCall("login", accountIndex, Ok)
            /\ UNCHANGED now

\* Mutant: logout forgets saveSession().
LogoutKeepsFile ==
    IF ~isLoggedIn(session)
    THEN /\ last' = WalletCall("logout", 0, NoWalletLoggedIn)
         /\ UNCHANGED <<session, sessionFile, now>>
    ELSE /\ session' = NoSession
         /\ last' = WalletCall("logout", 0, Ok)
         /\ UNCHANGED <<sessionFile, now>>

\* logout()
Logout ==
    IF ~isLoggedIn(session)
    THEN /\ last' = WalletCall("logout", 0, NoWalletLoggedIn)
         /\ UNCHANGED <<session, sessionFile, now>>
    ELSE /\ session' = NoSession
         /\ sessionFile' = saveSession(session')
         /\ last' = WalletCall("logout", 0, Ok)
         /\ UNCHANGED now

\* Time passes.
Tick ==
    /\ now < MaxClock
    /\ now' = now + 1
    /\ last' = WalletCall("tick", 0, Ok)
    /\ UNCHANGED <<session, sessionFile>>

NextWallet ==
    \/ Construct /\ UNCHANGED <<chain, stack, home, seed>>
    \/ \E i \in Indexes : Login(i) /\ UNCHANGED <<chain, stack, home, seed>>
    \/ Logout /\ UNCHANGED <<chain, stack, home, seed>>
    \/ Tick /\ UNCHANGED <<chain, stack, home, seed>>

SpecWallet == Init /\ [][NextWallet]_vars

\* --------------------------------------------------------- Home (web client)
\* The accounts of the browser wallet.
HomeUsers == EOAs
BrowserProvider == "BrowserProvider"

\* the messages of showNotification
WalletDisconnected == "Wallet disconnected"
WalletConnected == "Wallet connected successfully!"
FailedToConnect == "Failed to connect wallet"
SwitchedAccount == "Switched to"
LandPurchased == "Land purchased successfully!"
YouAlreadyOwn == "You already own this land!"
FailedToPurchase == "Failed to purchase land"

\* error.message of a reverted transaction: the provider's text around the
\* revert reason.
errorMessage(reason) == <<"execution reverted: \"", reason, "\"">>

\* errorMessage.includes(text)
includes(message, text) == \E i \in 1..Len(message) : message[i] = text

\* What buyLand of the client shows for the outcome of its transaction.
buyLandNotification(outcome) ==
    IF outcome = Ok THEN LandPurchased
    ELSE IF includes(errorMessage(outcome), AlreadyOwner) THEN YouAlreadyOwn
    ELSE FailedToPurchase

\* disconnectWallet()
disconnectWalletState ==
    /\ account' = Null
    /\ contract' = Null
    /\ provider' = Null
    /\ homeLands' = <<>>
    /\ notification' = WalletDisconnected

\* The user picks Disconnect in the account menu (shown when an account is
\* connected, and covered by the loading overlay while isLoading).
disconnectWallet ==
    /\ account # Null
    /\ ~isLoading
    /\ disconnectWalletState
    /\ UNCHANGED <<isLoading, ethereum, awaiting>>

\* connectWallet() up to its await of getSigner(): the wallet answers
\* eth_requestAccounts with its account, or rejects the request.
connectWallet ==
    /\ ~isLoading
    /\ "connectWallet" \notin awaiting
    /\ IF ethereum = Null
       THEN /\ notification' = FailedToConnect
            /\ UNCHANGED <<account, provider, isLoading, awaiting>>
       ELSE /\ account' = ethereum
            /\ provider' = BrowserProvider
            /\ isLoading' = TRUE
            /\ awaiting' = awaiting \cup {"connectWallet"}
            /\ UNCHANGED notification
    /\ UNCHANGED <<contract, homeLands, ethereum>>

\* connectWallet() from the return of getSigner() on: the contract is set and
\* the effect on [contract] starts fetchLands; a rejected getSigner is caught.
connectWalletSigner ==
    /\ "connectWallet" \in awaiting
    /\ IF ethereum = Null
       THEN /\ notification' = FailedToConnect
            /\ awaiting' = awaiting \ {"connectWallet"}
            /\ UNCHANGED contract
       ELSE /\ contract' = ethereum
            /\ notification' = WalletConnected
            /\ awaiting' = (awaiting \ {"connectWallet"}) \cup {"fetchLands"}
    /\ isLoading' = FALSE
    /\ UNCHANGED <<account, provider, homeLands, ethereum>>

\* The wallet extension changes its account (a = Null: locked or revoked) and
\* emits accountsChanged; handleAccountsChanged runs up to its await.
handleAccountsChanged(a) ==
    /\ a # ethereum
    /\ ethereum' = a
    /\ IF a = Null
       THEN /\ disconnectWalletState
            /\ UNCHANGED awaiting
       ELSE IF a # account
       THEN /\ account' = a
            /\ provider' = BrowserProvider
            /\ awaiting' = awaiting \cup {"handleAccountsChanged"}
            /\ UNCHANGED <<contract, homeLands, notification>>
       ELSE UNCHANGED <<account, contract, provider, homeLands, notification, awaiting>>
    /\ UNCHANGED isLoading

\* handleAccountsChanged from the return of getSigner() on; the handler has no
\* catch, so a rejected getSigner ends it.
handleAccountsChangedSigner ==
    /\ "handleAccountsChanged" \in awaiting
    /\ IF ethereum = Null
       THEN /\ awaiting' = awaiting \ {"handleAccountsChanged"}
            /\ UNCHANGED <<contract, notification>>
       ELSE /\ contract' = ethereum
            /\ notification' = SwitchedAccount
            /\ awaiting' = (awaiting \ {"handleAccountsChanged"}) \cup {"fetchLands"}
    /\ UNCHANGED <<account, provider, homeLands, isLoading, ethereum>>

\* fetchLands() from the return of contract.getAllLands() on.  The call reads
\* the state between two transactions.
fetchLands ==
    /\ "fetchLands" \in awaiting
    /\ stack = <<>>
    /\ homeLands' = getAllLands
    /\ awaiting' = awaiting \ {"fetchLands"}
    /\ UNCHANGED <<account, contract, provider, notification, isLoading, ethereum>>

\* setTimeout(() => setNotification(null), 5000)
clearNotification ==
    /\ notification # Null
    /\ notification' = Null
    /\ UNCHANGED <<account, contract, provider, homeLands, isLoading, ethereum, awaiting>>

\* A step of the client alone.
HomeStep(A) == A /\ UNCHANGED <<chain, stack, last, wallet, seed>>

\* What the client does when its transaction has ended with this outcome.
buyLandEnds(outcome) ==
    /\ notification' = buyLandNotification(outcome)
    /\ isLoading' = FALSE
    /\ awaiting' = IF outcome = Ok THEN (awaiting \ {"buyLand"}) \cup {"fetchLands"}
                   ELSE awaiting \ {"buyLand"}

\* Mutant: the transaction is sent without { value: land.price }.
buyLandNoValue(landId) ==
    /\ ~isLoading
    /\ account # Null
    /\ contract # Null
    /\ stack = <<>>
    /\ \E i \in 1..Len(homeLands) :
          LET land == homeLands[i] IN
          /\ land.id = landId
          /\ land.isForSale
          /\ land.seller # account
          /\ BuyLand(contract, landId, 0)
    /\ IF stack' = stack
       THEN buyLandEnds(last'.outcome)
       ELSE /\ isLoading' = TRUE
            /\ awaiting' = awaiting \cup {"buyLand"}
            /\ UNCHANGED notification
    /\ UNCHANGED <<account, contract, provider, homeLands, ethereum, wallet, seed>>

\* The user presses Buy Now on a parcel of the list (the button is shown for
\* a cached parcel that is for sale and whose seller is not the account):
\* buyLand(landId) of the client sends buyLand with the cached price.
buyLand(landId) ==
    /\ ~isLoading
    /\ account # Null
    /\ contract # Null
    /\ stack = <<>>
    /\ \E i \in 1..Len(homeLands) :
          LET land == homeLands[i] IN
          /\ land.id = landId
          /\ land.isForSale
          /\ land.seller # account
          /\ BuyLand(contract, landId, land.price)
    /\ IF stack' = stack
       THEN buyLandEnds(last'.outcome)
       ELSE /\ isLoading' = TRUE
            /\ awaiting' = awaiting \cup {"buyLand"}
            /\ UNCHANGED notification
    /\ UNCHANGED <<account, contract, provider, homeLands, ethereum, wallet, seed>>

\* await tx.wait(): the outermost suspended buyLand has returned; when it is
\* the client's transaction, the client reports it.
txWait ==
    /\ IF stack' = <<>> /\ "buyLand" \in awaiting
       THEN buyLandEnds(last'.outcome)
       ELSE UNCHANGED <<notification, isLoading, awaiting>>
    /\ UNCHANGED <<account, contract, provider, homeLands, ethereum, wallet, seed>>

\* The client's session, with parcels registered on the ledger meanwhile.
NextSession ==
    \/ HomeStep(connectWallet)
    \/ HomeStep(connectWalletSigner)
    \/ HomeStep(disconnectWallet)
    \/ \E a \in HomeUsers \cup {Null} : HomeStep(handleAccountsChanged(a))
    \/ HomeStep(handleAccountsChangedSigner)
    \/ HomeStep(fetchLands)
    \/ HomeStep(clearNotification)
    \/ \E c \in Contracts, l \in Locations, p \in Prices, u \in URIs :
          RegisterLand(c, l, p, u) /\ UNCHANGED offchain

SpecSession == Init /\ [][NextSession]_vars

\* The client of alice buying on a ledger that other accounts use too.
InitMarket ==
    /\ nextTokenId = 0
    /\ lands = [i \in Ids |-> EmptyLand]
    /\ owners = [i \in Ids |-> ZeroAddr]
    /\ tokenURIs = [i \in Ids |-> ""]
    /\ balances = [a \in Accounts \cup {Registry} |-> IF a = Registry THEN 0 ELSE InitBalance]
    /\ stack = <<>>
    /\ last = Done("deploy", Ok)
    /\ session = <<>>
    /\ sessionFile = <<>>
    /\ now = 0
    /\ account = Null
    /\ contract = Null
    /\ provider = Null
    /\ homeLands = <<>>
    /\ notification = Null
    /\ isLoading = FALSE
    /\ ethereum = "alice"
    /\ awaiting = {}
    /\ governmentLands = <<>>
    /\ seedIndex = 0
    /\ seedLog = <<>>
    /\ successCount = 0
    /\ failCount = 0

\* The accounts that act on the ledger beside the client's user.
OtherUsers == Accounts \ {"alice"}

NextMarket ==
    \/ HomeStep(connectWallet)
    \/ HomeStep(connectWalletSigner)
    \/ HomeStep(fetchLands)
    \/ \E id \in Ids : buyLand(id)
    \/ AcceptPayment /\ txWait
    \/ RejectPayment /\ txWait
    \/ \E c \in OtherUsers, l \in Locations, p \in Prices, u \in URIs :
          RegisterLand(c, l, p, u) /\ UNCHANGED offchain
    \/ \E c \in OtherUsers, id \in Ids, v \in Values :
          BuyLand(c, id, v) /\ UNCHANGED offchain
    \/ \E id \in Ids :
          TransferFrom("bob", "bob", "alice", id) /\ UNCHANGED offchain

SpecMarket == InitMarket /\ [][NextMarket]_vars

\* ------------------------------------------- deployWithGovernmentLands.ts
\* const [government] = await ethers.getSigners()
Government == Signers[1]

\* land.price that ethers.parseEther cannot parse.
InvalidPrice == -1

\* The entries governmentLandData.json can hold: a location and a price text.
GovLands == [location : Locations, price : Prices \cup {InvalidPrice}]

\* A fresh registry, and a list of lands for the script.
InitSeed ==
    /\ nextTokenId = 0
    /\ lands = [i \in Ids |-> EmptyLand]
    /\ owners = [i \in Ids |-> ZeroAddr]
    /\ tokenURIs = [i \in Ids |-> ""]
    /\ balances = [a \in Accounts \cup {Registry} |-> IF a = Registry THEN 0 ELSE InitBalance]
    /\ stack = <<>>
    /\ last = Done("deploy", Ok)
    /\ session = <<>>
    /\ sessionFile = <<>>
    /\ now = 0
    /\ account = Null
    /\ contract = Null
    /\ provider = Null
    /\ homeLands = <<>>
    /\ notification = Null
    /\ isLoading = FALSE
    /\ ethereum = Null
    /\ awaiting = {}
    /\ governmentLands \in UNION {[1..n -> GovLands] : n \in 1..MaxLands}
    /\ seedIndex = 0
    /\ seedLog = <<>>
    /\ successCount = 0
    /\ failCount = 0

\* One iteration of the loop whose try block runs to its end: registerLand
\* is sent and mined, and the script prints the loop index as the token id.
registerGovernmentLand ==
    /\ seedIndex < Len(governmentLands)
    /\ LET land == governmentLands[seedIndex + 1] IN
       /\ land.price # InvalidPrice
       /\ \E u \in URIs : RegisterLand(Government, land.location, land.price, u)
    /\ last'.outcome = Ok
    /\ seedLog' = Append(seedLog, [index |-> seedIndex, tokenId |-> seedIndex])
    /\ successCount' = successCount + 1
    /\ seedIndex' = seedIndex + 1
    /\ UNCHANGED <<governmentLands, failCount, wallet, home>>

\* One iteration of the loop that throws before its transaction is mined
\* (parseEther on an invalid price, the upload of the metadata, the node):
\* the catch counts the failure and the loop goes on.
failGovernmentLand ==
    /\ seedIndex < Len(governmentLands)
    /\ failCount' = failCount + 1
    /\ seedIndex' = seedIndex + 1
    /\ UNCHANGED <<chain, stack, last, governmentLands, seedLog, successCount, wallet, home>>

NextSeed ==
    \/ registerGovernmentLand
    \/ failGovernmentLand
    \/ \E c \in OtherUsers, l \in Locations, p \in Prices, u \in URIs :
          RegisterLand(c, l, p, u) /\ UNCHANGED offchain

SpecSeed == InitSeed /\ [][NextSeed]_vars

\* ------------------------------------------------- vocabulary of the claims
Front == SubSeq(stack, 1, Len(stack) - 1)

\* This step is a call of buyLand reaching its requires: it is refused at once
\* (the stack is as it was) or suspended in seller.call (one frame more).
BuyCalled ==
    /\ vars' # vars
    /\ last'.op = "buy"
    /\ last'.depth = Len(stack)
    /\ \/ stack' = stack
       \/ Len(stack') = Len(stack) + 1
BuyRefused == BuyCalled /\ stack' = stack

\* This step is the return of the innermost suspended buyLand.
BuyReturned == stack # <<>> /\ stack' = Front

\* The state a suspended call would be rolled back to.
SnapshotChain(f) ==
    <<f.snapshot.nextTokenId, f.snapshot.lands, f.snapshot.owners,
      f.snapshot.tokenURIs, f.snapshot.balances>>

\* Parcel id is registered and a buy of it has set isForSale to false.
Sold(id) == lands[id].seller # ZeroAddr /\ ~lands[id].isForSale

\* Sold, and no suspended call would bring the parcel back on sale by reverting.
SoldForGood(id) ==
    /\ Sold(id)
    /\ \A i \in 1..Len(stack) :
          /\ stack[i].snapshot.lands[id].seller # ZeroAddr
          /\ ~stack[i].snapshot.lands[id].isForSale

\* ------------------------------------------------------------------ claims

\* C1. Reentrancy safety: a call of buyLand made from inside the payment of a
\* suspended buyLand of the same parcel fails with NotForSale, whoever calls
\* and whatever the value, and a buyLand that returns successfully leaves the
\* parcel owned by its caller, not for sale, with seller = its caller.
C1_ReentrancySafe ==
    /\ (last.op = "buy" /\ last.depth >= 1 /\ stack[last.depth].id = last.id)
          => last.outcome = NotForSale
    /\ (last.op = "buy" /\ last.outcome = Ok)
          => /\ owners[last.id] = last.caller
             /\ ~lands[last.id].isForSale
             /\ lands[last.id].seller = last.caller

\* C2. Atomic purchase: a call of buyLand that returns successfully leaves the
\* parcel owned by the caller, not for sale, seller = caller, the attached value
\* moved from the caller to the previous owner and nothing else changed since
\* the call began; a call that fails leaves the whole chain state as it was
\* when the call began.
C2_AtomicPurchase ==
    [][/\ (BuyReturned /\ last'.outcome = Ok) =>
             LET f == Top IN
             /\ owners' = [f.snapshot.owners EXCEPT ![f.id] = f.caller]
             /\ lands' = [f.snapshot.lands EXCEPT ![f.id].isForSale = FALSE,
                                                  ![f.id].seller = f.caller]
             /\ balances' = Pay(f.snapshot.balances, f.caller, f.snapshot.owners[f.id], f.value)
             /\ nextTokenId' = f.snapshot.nextTokenId
             /\ tokenURIs' = f.snapshot.tokenURIs
       /\ (BuyReturned /\ last'.outcome # Ok) => chain' = SnapshotChain(Top)
       /\ BuyRefused => UNCHANGED chain
      ]_vars

\* C3. Payment failure rollback: when the payee makes seller.call fail, buyLand
\* fails with "Transfer failed" and afterwards the owner is the previous owner,
\* the parcel is still for sale, its seller field is what it was and the
\* caller has the balance it had before the call; no other state differs from
\* the state before the call.
C3_PaymentFailureRollback ==
    [][(BuyReturned /\ last'.outcome # Ok) =>
          LET f == Top
              prev == f.snapshot.owners[f.id]
          IN /\ last'.outcome = PaymentTransferFailed
             /\ last'.caller = f.caller /\ last'.id = f.id
             /\ prev # f.caller
             /\ owners'[f.id] = prev
             /\ lands'[f.id].isForSale
             /\ lands'[f.id].seller = f.snapshot.lands[f.id].seller
             /\ balances'[f.caller] = f.snapshot.balances[f.caller]
             /\ chain' = SnapshotChain(f)
      ]_vars

C3_Witness ==
    /\ last.op = "buy" /\ last.outcome = PaymentTransferFailed
    /\ lands[last.id].isForSale
    /\ owners[last.id] # last.caller

\* C4. At the moment buyLand sends the payment, the parcel is already owned by
\* the buyer, already not for sale, and its seller field is already the buyer.
C4_PostMutationStateAtSend ==
    (last.op = "buy" /\ last.outcome = Sending) =>
        /\ owners[last.id] = last.caller
        /\ ~lands[last.id].isForSale
        /\ lands[last.id].seller = last.caller

\* C5. Single ownership: every id below the counter has an owner, and the
\* owner is an account or the registry's own address, never the zero address.
C5_SingleOwnership ==
    \A id \in Ids : id < nextTokenId =>
       (owners[id] \in Accounts \cup {Registry} /\ owners[id] # ZeroAddr)

\* a parcel was registered, bought, and then transferred by its new owner
C5_Witness ==
    /\ last.op = "transfer" /\ last.outcome = Ok
    /\ \E id \in Ids : Sold(id) /\ owners[id] # lands[id].seller

\* C6. Uniqueness: the id a successful registerLand assigns is greater than
\* every id that has an owner or a record already, it had neither before,
\* and it has both afterwards.
C6_Uniqueness ==
    [][(last'.op = "register" /\ last'.outcome = Ok /\ vars' # vars) =>
          /\ \A i \in Ids : (owners[i] # ZeroAddr \/ lands[i] # EmptyLand) => last'.id > i
          /\ owners[last'.id] = ZeroAddr /\ lands[last'.id] = EmptyLand
          /\ owners'[last'.id] = last'.caller /\ lands'[last'.id].id = last'.id
      ]_vars

\* a second parcel has been registered
C6_Witness == last.op = "register" /\ last.outcome = Ok /\ last.id >= 1

\* C7. One-shot sale: a buyLand that returns successfully leaves the parcel
\* sold; a parcel sold for good stays so; and every call of buyLand on a sold
\* parcel fails with NotForSale and changes no chain state (moves no funds).
C7_OneShotSale ==
    [][/\ (BuyReturned /\ last'.outcome = Ok) =>
             (lands'[Top.id].seller # ZeroAddr /\ ~lands'[Top.id].isForSale)
       /\ \A id \in Ids : SoldForGood(id) => SoldForGood(id)'
       /\ (BuyCalled /\ Sold(last'.id)) =>
             (stack' = stack /\ last'.outcome = NotForSale /\ UNCHANGED chain)
      ]_vars

\* a third party offers at least the price for a sold parcel and is refused
C7_Witness ==
    /\ last.op = "buy" /\ last.outcome = NotForSale
    /\ SoldForGood(last.id)
    /\ last.value >= lands[last.id].price /\ lands[last.id].price > 0
    /\ last.caller # owners[last.id]

\* C8 (as stated). Calling buyLand as the current owner of the parcel always
\* fails with AlreadyOwner and changes no state.
C8_SelfPurchaseAlreadyOwner ==
    [][(BuyCalled /\ owners[last'.id] = last'.caller) =>
          (stack' = stack /\ last'.outcome = AlreadyOwner /\ UNCHANGED chain)
      ]_vars

\* C8 (amended). Calling buyLand as the current owner of the parcel always
\* fails and changes no state; the error is AlreadyOwner exactly when the
\* parcel is for sale and the value is at least the price, NotForSale when the
\* parcel is not for sale, InsufficientFunds when it is and the value is
\* below the price.
C8_SelfPurchaseFails ==
    [][(BuyCalled /\ owners[last'.id] = last'.caller) =>
          /\ stack' = stack /\ UNCHANGED chain
          /\ last'.outcome \in {NotForSale, InsufficientFunds, AlreadyOwner}
          /\ last'.outcome = AlreadyOwner <=>
                (lands[last'.id].isForSale /\ last'.value >= lands[last'.id].price)
          /\ last'.outcome = NotForSale <=> ~lands[last'.id].isForSale
      ]_vars

C8_Witness ==
    /\ last.op = "buy" /\ last.outcome = AlreadyOwner
    /\ owners[last.id] = last.caller

\* C9 (as stated). Calling buyLand with a value below the parcel's price
\* always fails with InsufficientFunds and changes no state.
C9_UnderpaymentInsufficientFunds ==
    [][(BuyCalled /\ last'.value < lands[last'.id].price) =>
          (stack' = stack /\ last'.outcome = InsufficientFunds /\ UNCHANGED chain)
      ]_vars

\* C9 (amended). Calling buyLand with a value below the parcel's price always
\* fails and changes no state; the error is InsufficientFunds when the parcel
\* is for sale and NotForSale when it is not.
C9_UnderpaymentFails ==
    [][(BuyCalled /\ last'.value < lands[last'.id].price) =>
          /\ stack' = stack /\ UNCHANGED chain
          /\ last'.outcome = IF lands[last'.id].isForSale THEN InsufficientFunds
                             ELSE NotForSale
      ]_vars

C9_Witness ==
    /\ last.op = "buy" /\ last.outcome = InsufficientFunds
    /\ last.value < lands[last.id].price

\* C10. Precondition order: NotForSale whenever the parcel is not for sale;
\* InsufficientFunds when it is for sale and the value is below the price,
\* the caller being the owner or not; AlreadyOwner only when it is for sale,
\* the value is at least the price and the caller is the owner; otherwise the
\* call passes its checks.
C10_PreconditionOrder ==
    [][BuyCalled =>
          LET c == last'.caller
              id == last'.id
              v == last'.value
          IN last'.outcome =
                IF ~lands[id].isForSale THEN NotForSale
                ELSE IF v < lands[id].price THEN InsufficientFunds
                ELSE IF owners[id] = c THEN AlreadyOwner
                ELSE Sending
      ]_vars

\* the owner underpays for its own parcel: InsufficientFunds, not AlreadyOwner
C10_Witness ==
    /\ last.op = "buy" /\ last.outcome = InsufficientFunds
    /\ owners[last.id] = last.caller

\* C11. The payment of buyLand: the call's one transfer hands exactly
\* msg.value (not the price) from the caller to the account that owned the
\* parcel when the call began, the registry keeps nothing, and a successful
\* return moves no further ether (no refund of an excess).
C11_FullValueToPreviousOwner ==
    [][/\ (BuyCalled /\ stack' # stack) =>
             /\ balances' = Pay(balances, last'.caller, owners[last'.id], last'.value)
             /\ stack'[Len(stack')].seller = owners[last'.id]
             /\ stack'[Len(stack')].value = last'.value
       /\ (BuyReturned /\ last'.outcome = Ok) => balances' = balances
      ]_vars

\* C11 over the whole call: when a buyLand returns successfully, the balances
\* differ from those at its entry by exactly msg.value moved from the caller
\* to the owner at entry, and by nothing else.
C11_OnlyValueTransferOfCall ==
    [][(BuyReturned /\ last'.outcome = Ok) =>
          balances' = Pay(Top.snapshot.balances, Top.caller, Top.seller, Top.value)
      ]_vars

\* a buy that paid more than the price has returned successfully
C11_Witness ==
    /\ last.op = "buy" /\ last.outcome = Ok /\ stack = <<>>
    /\ last.value > lands[last.id].price
    /\ balances[last.caller] = InitBalance - last.value

\* C12. Between operations, the owner of every existing parcel equals the
\* seller field of its record.
C12_OwnerIsSeller ==
    stack = <<>> => \A id \in Ids : id < nextTokenId => owners[id] = lands[id].seller

\* C13. The counter never decreases, a successful registerLand raises it by
\* exactly 1, and no other step changes it.
C13_Counter ==
    [][/\ nextTokenId' >= nextTokenId
       /\ (last'.op = "register" /\ last'.outcome = Ok /\ vars' # vars)
             => nextTokenId' = nextTokenId + 1
       /\ nextTokenId' # nextTokenId
             => (last'.op = "register" /\ last'.outcome = Ok /\ stack' = stack)
      ]_vars

\* two parcels are registered and a buy has failed in its payment
C13_Witness ==
    /\ nextTokenId = 2
    /\ last.op = "buy" /\ last.outcome = PaymentTransferFailed

\* C14. Sale state machine: registerLand lists the parcel; isForSale goes
\* from true to false only in the successful return of a buyLand of that
\* parcel; it goes from false to true only when the parcel is registered or
\* a failing call is rolled back; a parcel sold for good is never listed again.
C14_SaleStateMachine ==
    [][\A id \in Ids :
          /\ (last'.op = "register" /\ last'.outcome = Ok /\ vars' # vars /\ last'.id = id)
                => lands'[id].isForSale
          /\ (lands[id].isForSale /\ ~lands'[id].isForSale)
                => (BuyReturned /\ last'.outcome = Ok /\ Top.id = id)
          /\ (~lands[id].isForSale /\ lands'[id].isForSale)
                => \/ (last'.op = "register" /\ last'.outcome = Ok /\ last'.id = id)
                   \/ (BuyReturned /\ last'.outcome = PaymentTransferFailed)
          /\ SoldForGood(id) => SoldForGood(id)'
      ]_vars

\* a sold parcel has been transferred and is still sold
C14_Witness ==
    /\ last.op = "transfer" /\ last.outcome = Ok
    /\ \E id \in Ids : SoldForGood(id) /\ owners[id] # lands[id].seller

\* C15. The owner of an existing parcel changes only in a buyLand of that
\* parcel that passed its checks (or in the rollback of a failed one).
C15_OwnerChangesOnlyByBuy ==
    [][\A id \in Ids : (owners[id] # ZeroAddr /\ owners'[id] # owners[id]) =>
          \/ (BuyCalled /\ stack' # stack /\ last'.id = id)
          \/ (BuyReturned /\ last'.outcome = PaymentTransferFailed)
      ]_vars

\* C16. The account paid by a successful buyLand is the account the parcel's
\* seller field named when the call began.
C16_PayeeIsSellerField ==
    [][(BuyReturned /\ last'.outcome = Ok) =>
          Top.seller = Top.snapshot.lands[Top.id].seller
      ]_vars

\* C20. buyLand on an id at or above the counter fails with NotForSale for
\* every caller and value and changes no chain state.
C20_UnregisteredNotForSale ==
    [][(BuyCalled /\ last'.id >= nextTokenId) =>
          (stack' = stack /\ last'.outcome = NotForSale /\ UNCHANGED chain)
      ]_vars

\* a positive value is offered for an id that was never registered
C20_Witness ==
    /\ last.op = "buy" /\ last.outcome = NotForSale
    /\ last.id >= nextTokenId /\ last.value > 0

\* C17. Effect of registerLand(location, price, uri) by c when the counter is
\* n: id n had no record and no owner; afterwards its record is (n, location,
\* price, true, c), its URI is uri, its owner is c, the counter is n + 1, and
\* no other record, owner, URI or balance has changed.
C17_RegisterEffect ==
    [][\A c \in Accounts, l \in SurveyLocations, p \in Prices, u \in SurveyURIs :
          (RegisterLand(c, l, p, u) /\ last'.outcome = Ok) =>
             LET n == nextTokenId IN
             /\ lands[n] = EmptyLand /\ owners[n] = ZeroAddr /\ tokenURIs[n] = ""
             /\ lands' = [lands EXCEPT ![n] = [id |-> n, location |-> l, price |-> p,
                                               isForSale |-> TRUE, seller |-> c]]
             /\ owners' = [owners EXCEPT ![n] = c]
             /\ tokenURIs' = [tokenURIs EXCEPT ![n] = u]
             /\ nextTokenId' = n + 1
             /\ UNCHANGED <<balances, stack>>
      ]_vars

\* a second parcel was registered with another location, URI and price
C17_Witness ==
    /\ last.op = "register" /\ last.outcome = Ok /\ last.id = 1
    /\ lands[1].location # lands[0].location
    /\ tokenURIs[1] # tokenURIs[0]
    /\ lands[1].price # lands[0].price

\* C18. A successful registerLand returns to its caller the id of the parcel
\* it created.
C18_RegisterReturnsId ==
    (last.op = "register" /\ last.outcome = Ok) => last.returned = <<last.id>>

\* C19. getAllLands returns nextTokenId elements, and element i is the
\* current record of parcel i, whose id field is i: every registered parcel
\* once, in ascending id order, sold parcels included.
C19_ListAll ==
    last.op = "list" =>
       /\ Len(last.returned) = nextTokenId
       /\ \A i \in 0..(nextTokenId - 1) :
             /\ last.returned[i + 1] = lands[i]
             /\ last.returned[i + 1].id = i
             /\ last.returned[i + 1].seller \in Accounts

\* two parcels are listed, the first sold and the second still for sale
C19_Witness ==
    /\ last.op = "list" /\ nextTokenId = 2 /\ stack = <<>>
    /\ Sold(0) /\ ~last.returned[1].isForSale
    /\ last.returned[2].isForSale /\ last.returned[2].id = 1

\* C22. registerLand has no access control: in every state, _mint would pass
\* for every account, and every call of registerLand, by whichever account
\* and with whichever location, price and URI, succeeds.
C22_RegisterOpenToAll ==
    [][/\ nextTokenId < MaxTokens => \A c \in Accounts : MintError(c, nextTokenId) = Ok
       /\ \A c \in Accounts, l \in Locations, p \in Prices, u \in URIs :
             RegisterLand(c, l, p, u) => (last'.outcome = Ok /\ last'.caller = c)
      ]_vars

\* a contract registers a parcel after another account registered the first
C22_Witness ==
    /\ last.op = "register" /\ last.outcome = Ok
    /\ last.caller = "mallory" /\ last.id = 1
    /\ lands[0].seller = "bob"

\* C23. buyLand(id) by c with value v gets past its checks if and only if the
\* parcel exists, is for sale, v >= price and c is not the owner; it then
\* succeeds if and only if the previous owner accepts the payment, which an
\* account without code always does.
C23_BuySucceedsIff ==
    [][/\ BuyCalled =>
             (stack' # stack <=>
                 /\ last'.id < nextTokenId
                 /\ lands[last'.id].isForSale
                 /\ last'.value >= lands[last'.id].price
                 /\ last'.caller # owners[last'.id])
       /\ BuyReturned =>
             /\ (last'.outcome = Ok) <=> AcceptPayment
             /\ (last'.outcome # Ok) <=> RejectPayment
             /\ Top.seller \in EOAs => last'.outcome = Ok
      ]_vars

\* a parcel with a positive price was bought for exactly its price
C23_Witness ==
    /\ last.op = "buy" /\ last.outcome = Ok /\ stack = <<>>
    /\ lands[last.id].price = MaxPrice
    /\ last.value = lands[last.id].price

\* C24. Frame of the record: id, location and price of a registered parcel
\* never change; the record changes only in the successful return of a buyLand
\* of that parcel, or when a failing call is rolled back to the record it had
\* at entry; an unregistered record changes only by its registration.
C24_RecordFrame ==
    [][\A id \in Ids :
          /\ lands[id].seller # ZeroAddr =>
                /\ lands'[id].id = lands[id].id
                /\ lands'[id].location = lands[id].location
                /\ lands'[id].price = lands[id].price
          /\ (lands[id].seller # ZeroAddr /\ lands'[id] # lands[id]) =>
                /\ BuyReturned
                /\ \/ last'.outcome = Ok /\ Top.id = id
                   \/ last'.outcome # Ok /\ lands'[id] = Top.snapshot.lands[id]
          /\ (lands[id].seller = ZeroAddr /\ lands'[id] # lands[id]) =>
                (last'.op = "register" /\ last'.outcome = Ok /\ last'.id = id)
          /\ BuyRefused => lands' = lands
          /\ (BuyReturned /\ last'.outcome # Ok) => lands' = Top.snapshot.lands
      ]_vars

\* a listed parcel was transferred while another one was already sold
C24_Witness ==
    /\ last.op = "transfer" /\ last.outcome = Ok
    /\ nextTokenId = 2 /\ Sold(0)
    /\ lands[1].isForSale /\ owners[1] # lands[1].seller

\* C25. An id has an owner if and only if it is below the counter; the record
\* under an id below the counter has that id in its id field; the record
\* under an id at or above the counter is the empty default.
C25_ExistenceConsistency ==
    \A id \in Ids :
       /\ owners[id] # ZeroAddr <=> id < nextTokenId
       /\ id < nextTokenId => (lands[id].id = id /\ lands[id].seller # ZeroAddr)
       /\ id >= nextTokenId => lands[id] = EmptyLand

\* parcel 0 belongs to the registry itself and parcel 1 does not exist
C25_Witness ==
    /\ nextTokenId = 1 /\ owners[0] = Registry
    /\ lands[1] = EmptyLand /\ owners[1] = ZeroAddr

RECURSIVE SumOver(_, _)
SumOver(bal, S) ==
    IF S = {} THEN 0
    ELSE LET a == CHOOSE x \in S : TRUE IN bal[a] + SumOver(bal, S \ {a})

\* C26. Conservation of funds: the registry holds nothing after a completed
\* operation, the sum of all balances is what it was at deployment, and a
\* failed buyLand leaves every balance as it was when the call began.
C26_Conservation ==
    [][/\ stack' = <<>> => balances'[Registry] = 0
       /\ SumOver(balances', DOMAIN balances') = SumOver(balances, DOMAIN balances)
       /\ BuyRefused => balances' = balances
       /\ (BuyReturned /\ last'.outcome # Ok) => balances' = Top.snapshot.balances
      ]_vars

\* a buy of a parcel owned by the registry itself failed in its payment
C26_Witness ==
    /\ last.op = "buy" /\ last.outcome = PaymentTransferFailed /\ stack = <<>>
    /\ owners[last.id] = Registry /\ last.value > 0

\* C29. login with an index at or above the number of signers fails with the
\* invalid-index error and leaves the session in memory, isLoggedIn() and the
\* session file exactly as they were.
C29_InvalidIndexLogin ==
    [][\A i \in Indexes : (Login(i) /\ i >= Len(Signers)) =>
          /\ last'.outcome = InvalidAccountIndex
          /\ session' = session
          /\ isLoggedIn(session') = isLoggedIn(session)
          /\ sessionFile' = sessionFile
      ]_vars

\* a login with an index one past the last signer failed while logged in
C29_Witness ==
    /\ last.op = "login" /\ last.index = Len(Signers)
    /\ last.outcome = InvalidAccountIndex
    /\ isLoggedIn(session) /\ sessionFile # NoFile

\* C30. The session file exists exactly when the session in memory is not
\* null, and a new WalletService would load the very session the running one
\* holds; a logout while logged in ends with no session and no file; a logout
\* while not logged in changes nothing.
C30_SessionPersistence ==
    [][/\ (sessionFile' # NoFile) <=> (session' # NoSession)
       /\ loadSession(sessionFile') = session'
       /\ isLoggedIn(loadSession(sessionFile')) = isLoggedIn(session')
       /\ (Logout /\ isLoggedIn(session)) => (session' = NoSession /\ sessionFile' = NoFile)
       /\ (Logout /\ ~isLoggedIn(session)) => UNCHANGED <<session, sessionFile>>
      ]_vars

\* a new process has loaded the session an earlier login saved
C30_Witness ==
    /\ last.op = "construct"
    /\ isLoggedIn(session) /\ session[1].address = "bob"
    /\ session[1].connectedAt < now

\* The four failure kinds of buyLand.
BuyFailures == {NotForSale, InsufficientFunds, AlreadyOwner, PaymentTransferFailed}

\* This step ends a buyLand of the client: refused at once, or returned from
\* its payment.
ClientBuyEnds ==
    \/ (\E id \in Ids : buyLand(id)) /\ stack' = stack
    \/ BuyReturned /\ stack' = <<>> /\ "buyLand" \in awaiting

\* C21. The four failure kinds are four different error values, and the
\* message the client shows for a failed purchase is the message of that
\* failure kind only: no other kind would have been shown the same message.
C21_DistinctMessages ==
    [][/\ Cardinality(BuyFailures) = 4
       /\ (ClientBuyEnds /\ last'.outcome \in BuyFailures) =>
             \A e \in BuyFailures \ {last'.outcome} :
                buyLandNotification(e) # notification'
      ]_vars

\* C27. The list of the client holds, for each id, the price the ledger holds
\* for it; a buyLand of the client attaches that price and never fails with
\* "Insufficient funds", in its requires or later.
C27_CachedPriceSuffices ==
    [][/\ \A i \in 1..Len(homeLands') :
             /\ homeLands'[i].id = i - 1
             /\ i - 1 < nextTokenId'
             /\ homeLands'[i].price = lands'[i - 1].price
       /\ \A id \in Ids : buyLand(id) =>
             /\ last'.caller = contract /\ last'.id = id
             /\ last'.value = lands[id].price
             /\ last'.outcome # InsufficientFunds
       /\ ClientBuyEnds => last'.outcome # InsufficientFunds
      ]_vars

\* the client bought from a stale list: the parcel, priced above 0, had been
\* sold meanwhile, and the list still shows it for sale
C27_Witness ==
    /\ last.op = "buy" /\ last.caller = "alice" /\ last.outcome = NotForSale
    /\ lands[last.id].price > 0 /\ last.value = lands[last.id].price
    /\ Len(homeLands) > last.id /\ homeLands[last.id + 1].isForSale
    /\ notification = FailedToPurchase

\* C28. Whenever the client's account is null, its contract and provider are
\* null and its list of parcels is empty.
C28_SessionConsistent ==
    account = Null => (contract = Null /\ provider = Null /\ homeLands = <<>>)

\* C31. For every land the seeding loop registers successfully, the token id
\* it reports is the id the registry assigned to that land.
C31_ReportedIdIsAssigned ==
    [][registerGovernmentLand =>
          /\ seedLog'[Len(seedLog')].index = seedIndex
          /\ seedLog'[Len(seedLog')].tokenId = last'.id
      ]_vars

====
